---- MODULE Spec2Model ----
(***************************************************************************)
(* The session relay of websocket-server: the /call connection handler of  *)
(* server.ts, the session registry and the telephony / model-leg handlers  *)
(* of sessionManager.ts, and the consent handlers of functionHandlers.ts   *)
(* with their process-wide sessionControl flags.                           *)
(*                                                                         *)
(* A call c owns one telephony socket (tw[c]) and the Session object that  *)
(* handleCallConnection creates for it (session[c]); the model-leg socket  *)
(* that tryConnectModel creates for that Session is msock[c].  Twilio      *)
(* sends one 'start' per stream, so a Session connects its model leg once. *)
(***************************************************************************)
EXTENDS Integers, FiniteSets, Sequences, TLC

\* ---------------------------------------------------------------- bounds
NumCalls == 2           \* telephony connections accepted in one run
MaxInvocations == 2     \* tool invocations the model legs deliver in one run
NumChunks == 1          \* audioChunks.length of the denial recording
MaxDeltas == 1          \* audio deltas counted in one utterance

Calls == 1..NumCalls
NoSession == 0

\* ------------------------------------------------------------- registry keys
TempId(c) == <<"temp", c>>        \* `temp_${Date.now()}_${Math.random()}`
StreamSidOf(c) == <<"sid", c>>    \* msg.start.streamSid of call c's stream
NoKey == <<"none", 0>>            \* undefined
Keys == {TempId(c) : c \in Calls} \cup {StreamSidOf(c) : c \in Calls}
KeyOwner(k) == k[2]

\* ------------------------------------------------------- capability registry
Functions ==
    {"handle_pii_statement", "continue_with_consent", "clarify_consent",
     "hang_up_call", "tavily_search", "get_weather_from_coords"}
getConsentFunctions == {"hang_up_call", "continue_with_consent", "clarify_consent"}
getNonConsentFunctions == {f \in Functions : f \notin getConsentFunctions}
getOnlyConsentFunctions == {f \in Functions : f \in getConsentFunctions}

\* ------------------------------------------------------------ instructions
SYSTEM_PROMPT_BASE == "SYSTEM_PROMPT_BASE"
SYSTEM_PROMPT_WITH_CONSENT == "SYSTEM_PROMPT_WITH_CONSENT"
SYSTEM_PROMPT == SYSTEM_PROMPT_BASE

\* getSystemPrompt(disableConsentHandling)
getSystemPrompt(disabled) ==
    IF disabled THEN SYSTEM_PROMPT_BASE ELSE SYSTEM_PROMPT_WITH_CONSENT

\* INITIAL_GREETING: an empty message, to start listening
INITIAL_GREETING == [enabled |-> TRUE, message |-> ""]

\* getInitialGreeting(disableConsentHandling)
getInitialGreeting(disabled) ==
    IF disabled
    THEN [enabled |-> TRUE,
          message |-> "Guten Tag! Hier ist die Stadt Siegburg. Wie kann ich Ihnen helfen? "]
    ELSE INITIAL_GREETING

\* no greeting item has been sent on the model leg
NoGreeting == "none"

VARIABLES
    \* configuration, fixed at start-up
    serverKind,      \* "single_slot" (server.ts) | "active_calls" (its successor)
    disableConsent,  \* DISABLE_CONSENT_HANDLING === "true"
    recordingMode,   \* "off" | "twilio" (PUBLIC_URL set) | "local"
    \* server
    currentCall,     \* server.ts: let currentCall
    activeCalls,     \* successor: const activeCalls
    audioCached,     \* prerecordedAudio.ts: consentDenialAudioChunks !== null
    \* sockets
    tw,              \* readyState of call c's telephony socket
    msock,           \* readyState of the model-leg socket of Session c
    started,         \* Twilio has sent this stream's 'start'
    \* sessionManager.ts
    sessions,        \* the Map: key -> Session (NoSession: absent)
    session,         \* the Session objects
    startPending,    \* 'start' handler suspended in await startTwilioRecording
    greetPending,    \* greeting setTimeout armed
    localRec,        \* recordingManager entry of call c's streamSid
    task,            \* the tool invocation in flight on Session c
    invoked,         \* tool invocations delivered so far on Session c
    sessionControl,  \* functionHandlers.ts: export const sessionControl
    denialLoading,   \* getConsentDenialAudioChunks() pending for Session c
    denialPlay,      \* next timer index of each running denial playback
    \* observers
    logs,            \* server: currentLogs, and the observer sockets
    stale,           \* readyState of the model socket a later 'start' replaced
    \* what each leg has been sent, and what has been done to each call
    obs

config == <<serverKind, disableConsent, recordingMode>>
vars == <<serverKind, disableConsent, recordingMode, currentCall, activeCalls,
          audioCached, tw, msock, started, sessions, session, startPending,
          greetPending, localRec, task, invoked, sessionControl,
          denialLoading, denialPlay, logs, stale, obs>>

NoTask == [name |-> "none", reason |-> "", stage |-> "none", call_id |-> 0,
           argsOk |-> TRUE, throws |-> FALSE, output |-> "none"]
NoSetup == [tools |-> {}, instructions |-> "none"]

\* utterance tracking: undefined values of the Session's optional fields
NoTime == -1                      \* responseStartTimestamp === undefined
NoItem == "none"                  \* lastAssistantItem === undefined

\* latestMediaTimestamp, audioChunkCount and audioDurationMs are only read
\* through `|| 0` or a truthiness test, so undefined is 0 for them
\* saved_config: the keys the override holds, and their values
SetupKeys == {"tools", "instructions"}
NoConfig == [has |-> {}, tools |-> {}, instructions |-> ""]

NewSession ==
    [twilioConn |-> FALSE, modelConn |-> FALSE, frontendConn |-> FALSE,
     saved_config |-> NoConfig, streamSid |-> NoKey,
     recordingSid |-> FALSE, latestMediaTimestamp |-> 0,
     lastAssistantItem |-> NoItem, responseStartTimestamp |-> NoTime,
     audioDurationMs |-> 0, audioChunkCount |-> 0]

\* "Reset session audio state"
ResetTrackingKeepsCount(sr) ==
    [sr EXCEPT !.lastAssistantItem = NoItem, !.responseStartTimestamp = NoTime,
               !.audioDurationMs = 0]
ResetTracking(sr) ==
    [sr EXCEPT !.lastAssistantItem = NoItem, !.responseStartTimestamp = NoTime,
               !.audioDurationMs = 0, !.audioChunkCount = 0]

\* what one handler run sent, in order
NoError == [type |-> "none", audioContent |-> FALSE, shorterThan |-> FALSE]
NoStep == [seq |-> 0, event |-> "none", error |-> NoError, inFlight |-> FALSE,
           elapsed |-> 0, estimate |-> 0, sends |-> << >>]

NewObs ==
    [mediaFrom |-> {},       \* sockets whose media frames updated this Session
     modelIn |-> {},         \* sockets whose audio was appended to its model leg
     twilioOut |-> {},       \* model legs whose audio was sent to its telephony leg
     setup |-> NoSetup,      \* last session.update sent to its model leg
     hungUpBy |-> {},        \* tool whose result callback hung this Session up
     affirmed |-> FALSE,     \* continue_with_consent has run for this Session
     affirmDone |-> FALSE,   \* ... and its result has been returned
     denialBegun |-> FALSE,  \* the denial hang-up has begun on this Session
     denialSent |-> {},      \* denial chunks sent to its telephony leg
     denialHungUpAt |-> NoTime,  \* ms into the playback at which its
                                 \* hang-up timer closed the telephony leg
     lateAudio |-> FALSE,    \* model audio forwarded after denialBegun
     recStarted |-> FALSE,   \* a recording of this call has been started
     inboundRecorded |-> FALSE,  \* caller audio was written to a recording
     last |-> NoStep,        \* the last barge-in or model error handled
     ranIds |-> {},          \* call ids whose handler has been run
     reran |-> {},           \* call ids whose handler has been run again
     toolOut |-> << >>,      \* what the last result callback sent the model leg
     skipped |-> {},         \* timers that fired and found their leg not open
     badWrite |-> FALSE,     \* ws.send ran on a socket that was not OPEN
     frames |-> 0,           \* parity of the malformed frames handled
     escaped |-> FALSE,      \* a frame handler ended with an uncaught error
     override |-> NoConfig,  \* last session.update its observer leg delivered
     media |-> "none",       \* the last media frame handled for it was
                             \* "forwarded" to its model leg or "dropped"
     recStopped |-> FALSE,   \* stopRecording was called for its stream id
     dupStreams |-> FALSE,   \* streams were created for an id that had an entry
     closeSeen |-> FALSE,    \* a 'close' frame was handled after its 'start'
     configured |-> FALSE,   \* the current model socket has been sent its setup
     greeting |-> NoGreeting, \* text of the greeting item sent to the model leg
     startLost |-> FALSE,    \* its 'start' frame found no Session under its key
     deltaOut |-> << >>,     \* what the last audio delta sent its telephony leg
     unmirrored |-> FALSE]   \* a model event was handled with its observer
                             \* leg open and was not sent to it

\* ------------------------------------------------------------------ helpers
\* sessionManager.ts isOpen(ws)
isOpenTwDefinedOnly(s) == session[s].twilioConn
isOpenTw(s) == session[s].twilioConn /\ tw[s] = "open"
isOpenModelDefinedOnly(s) == session[s].modelConn
isOpenModel(s) == session[s].modelConn /\ msock[s] = "open"

\* ws.close() on a socket in the given readyState
CloseSock(st) ==
    CASE st = "open" -> "closing"
      [] st = "connecting" -> "aborting"
      [] OTHER -> st

\* cleanupConnection(ws): if (isOpen(ws)) ws.close()
cleanupConnection(defined, st) ==
    IF defined /\ st = "open" THEN "closing" ELSE st

\* sessions.get(key), on a given map
LookupLatest(map, key) ==
    IF \E c \in Calls : map[TempId(c)] # NoSession \/ map[StreamSidOf(c)] # NoSession
    THEN CHOOSE s \in Calls :
             /\ \E k \in Keys : map[k] = s
             /\ \A k \in Keys : map[k] # NoSession => map[k] <= s
    ELSE NoSession
Lookup(map, key) == map[key]

\* the message handler's key: streamSid || tempSessionId || tempSessionId
SessionIdOf(c) ==
    IF session[c].streamSid # NoKey THEN session[c].streamSid ELSE TempId(c)

\* the Session object getSession(streamSid) creates for observer f when the
\* registry has no entry under that stream id
Orphan(f) == 0 - f

\* an observer socket: its readyState, the Session its handlers closed over,
\* and the fields of that Session when it is the one created for the observer
NoLogs == [sock |-> "idle", held |-> NoSession, frontendConn |-> FALSE,
           saved_config |-> NoConfig]

\* isOpen(session.frontendConn): the observer of stream s is socket s
isOpenFront(s) == session[s].frontendConn /\ logs.conn[s].sock = "open"

\* removeSession(key), on a given map
removeSession(map, key) == [map EXCEPT ![key] = NoSession]

\* the state after start-up, for the given deployments
InitWith(kinds, consentOff, modes) ==
    /\ serverKind \in kinds
    /\ disableConsent \in consentOff
    /\ recordingMode \in modes
    /\ currentCall = NoSession
    /\ activeCalls = {}
    \* server.listen: preloadAudio() unless consent handling is disabled; it
    \* may fail (no ffmpeg), leaving the cache empty.  server.ts preloads nothing.
    /\ audioCached \in (IF serverKind = "active_calls" /\ ~disableConsent
                        THEN BOOLEAN ELSE {FALSE})
    /\ tw = [c \in Calls |-> "idle"]
    /\ msock = [c \in Calls |-> "none"]
    /\ started = [c \in Calls |-> FALSE]
    /\ sessions = [k \in Keys |-> NoSession]
    /\ session = [c \in Calls |-> NewSession]
    /\ startPending = [c \in Calls |-> FALSE]
    /\ greetPending = [c \in Calls |-> FALSE]
    /\ localRec = [c \in Calls |-> "none"]
    /\ task = [c \in Calls |-> NoTask]
    /\ invoked = [c \in Calls |-> 0]
    /\ sessionControl =
           [shouldHangUp |-> FALSE, hangUpReason |-> "",
            shouldPlayConsentDenialAudio |-> FALSE,
            consentHandled |-> FALSE, shouldUpdateFunctions |-> FALSE]
    /\ denialLoading = [c \in Calls |-> FALSE]
    /\ denialPlay = [c \in Calls |-> {}]
    /\ logs = [current |-> NoSession, conn |-> [f \in Calls |-> NoLogs]]
    /\ stale = [c \in Calls |-> "none"]
    /\ obs = [c \in Calls |-> NewObs]

Init == InitWith({"single_slot", "active_calls"}, BOOLEAN,
                 {"off", "twilio", "local"})

\* ------------------------------------------------------ recordingManager
\* The entry of one id in recordingManager.recordings, with the
\* startRecording calls of that id still in `await mkdir` (at most two):
\* "none", "starting" (one call pending), "starting_2" (two pending),
\* "active" (entry set), "active_pending" (entry set, one call pending)
HasRecording(st) == st \in {"active", "active_pending"}
\* startRecording(sessionId): a no-op when the entry exists, else mkdir begins
startRecording(st) ==
    CASE HasRecording(st) -> st
      [] st = "none" -> "starting"
      [] OTHER -> "starting_2"
\* startRecording after await mkdir: createWriteStream twice, recordings.set
RecordingReady(st) ==
    CASE st = "starting" -> "active"
      [] st = "starting_2" -> "active_pending"
      [] OTHER -> "active"
\* stopRecording(sessionId): ends the streams and deletes the entry
stopRecording(st) ==
    CASE st = "active" -> "none"
      [] st = "active_pending" -> "starting"
      [] OTHER -> st

\* recordingManager.stopRecording(session.streamSid) has been called
MarkStopped(o, sid) ==
    [d \in Calls |->
        IF sid # NoKey /\ recordingMode = "local" /\ d = KeyOwner(sid)
        THEN [o[d] EXCEPT !.recStopped = TRUE] ELSE o[d]]

\* ------------------------------------------------------- tryConnectModel
\* whether tryConnectModel(session) reaches new WebSocket(...)
\* session.modelConn = new WebSocket(...): the socket it replaces is not closed;
\* one that has not yet emitted 'close' keeps its handlers on this Session
Superseded(old, st) ==
    IF st \in {"connecting", "aborting", "open", "closing"} THEN st ELSE old

tryConnectModel(sr, st) ==
    /\ sr.twilioConn
    /\ sr.streamSid # NoKey
    /\ ~(sr.modelConn /\ st = "open")

\* ------------------------------------------------------------- server
\* handleCallConnection(ws, ...): the Session under a fresh temporary key
handleCallConnection(c) ==
    /\ tw[c] = "idle"
    /\ \A d \in Calls : d < c => tw[d] # "idle"
    /\ sessions' = [sessions EXCEPT ![TempId(c)] = c]
    /\ session' = [session EXCEPT ![c].twilioConn = TRUE]

\* server.ts: if (currentCall) currentCall.close(); currentCall = ws
AcceptSingleSlot(c) ==
    /\ serverKind = "single_slot"
    /\ handleCallConnection(c)
    /\ tw' = [d \in Calls |->
                IF d = c THEN "open"
                ELSE IF d = currentCall THEN CloseSock(tw[d]) ELSE tw[d]]
    /\ currentCall' = c
    /\ UNCHANGED <<stale, logs, config, activeCalls, audioCached, msock, started,
                   startPending, greetPending, localRec, task, invoked,
                   sessionControl, denialLoading, denialPlay, obs>>

\* the successor of server.ts: activeCalls.set(callId, ws)
AcceptActiveCalls(c) ==
    /\ serverKind = "active_calls"
    /\ handleCallConnection(c)
    /\ tw' = [tw EXCEPT ![c] = "open"]
    /\ activeCalls' = activeCalls \cup {c}
    /\ UNCHANGED <<stale, logs, config, currentCall, audioCached, msock, started,
                   startPending, greetPending, localRec, task, invoked,
                   sessionControl, denialLoading, denialPlay, obs>>

\* ------------------------------------------------------ telephony frames
\* handleTwilioMessage, case "start"
TwilioStart(c) ==
    /\ tw[c] \in {"open", "closing"}
    /\ ~started[c]
    /\ started' = [started EXCEPT ![c] = TRUE]
    /\ LET sessionId == SessionIdOf(c)
           s == Lookup(sessions, sessionId)
           realStreamSid == StreamSidOf(c)
       IN IF s = NoSession
          THEN /\ obs' = [obs EXCEPT ![c].startLost = TRUE]
               /\ UNCHANGED <<sessions, session, startPending, localRec, msock>>
          ELSE LET moved == [ResetTracking(session[s]) EXCEPT
                                 !.streamSid = realStreamSid,
                                 !.latestMediaTimestamp = 0]
                   o == KeyOwner(realStreamSid)
               IN /\ sessions' = [[sessions EXCEPT ![sessionId] = NoSession]
                                     EXCEPT ![realStreamSid] = s]
                  /\ localRec' = IF recordingMode = "local"
                                 THEN [localRec EXCEPT ![o] = startRecording(@)]
                                 ELSE localRec
                  \* await startTwilioRecording(...) suspends the handler
                  /\ startPending' = IF recordingMode = "twilio"
                                     THEN [startPending EXCEPT ![s] = TRUE]
                                     ELSE startPending
                  /\ IF recordingMode # "twilio" /\ tryConnectModel(moved, msock[s])
                     THEN /\ session' = [session EXCEPT ![s] =
                                            [moved EXCEPT !.modelConn = TRUE]]
                          /\ msock' = [msock EXCEPT ![s] = "connecting"]
                     ELSE /\ session' = [session EXCEPT ![s] = moved]
                          /\ UNCHANGED msock
                  /\ UNCHANGED obs
    /\ UNCHANGED <<stale, logs, config, currentCall, activeCalls, audioCached, tw,
                   greetPending, task, invoked, sessionControl,
                   denialLoading, denialPlay>>

\* handleTwilioMessage, case "start", after await startTwilioRecording
RecordingCallReturns(s, ok) ==
    /\ startPending[s]
    /\ startPending' = [startPending EXCEPT ![s] = FALSE]
    /\ LET sr == IF ok THEN [session[s] EXCEPT !.recordingSid = TRUE]
                 ELSE session[s]
       IN /\ obs' = [obs EXCEPT
                       ![s].recStarted = @ \/ ok,
                       ![s].configured = @ /\ ~tryConnectModel(sr, msock[s])]
          /\ IF tryConnectModel(sr, msock[s])
             THEN /\ session' = [session EXCEPT
                                   ![s] = [sr EXCEPT !.modelConn = TRUE]]
                  /\ msock' = [msock EXCEPT ![s] = "connecting"]
                  /\ stale' = [stale EXCEPT ![s] = Superseded(@, msock[s])]
             ELSE /\ session' = [session EXCEPT ![s] = sr]
                  /\ UNCHANGED <<msock, stale>>
    /\ UNCHANGED <<logs, config, currentCall, activeCalls, audioCached, tw, started,
                   sessions, greetPending, localRec, task, invoked,
                   sessionControl, denialLoading, denialPlay>>

\* recordingManager.startRecording after await mkdir: recordings.set(...)
LocalRecordingReady(c) ==
    /\ localRec[c] \in {"starting", "starting_2", "active_pending"}
    /\ localRec' = [localRec EXCEPT ![c] = RecordingReady(@)]
    /\ obs' = [obs EXCEPT ![c].recStarted = TRUE,
                          ![c].dupStreams = @ \/ HasRecording(localRec[c])]
    /\ UNCHANGED <<stale, logs, config, currentCall, activeCalls, audioCached, tw, msock,
                   started, sessions, session, startPending, greetPending,
                   task, invoked, sessionControl, denialLoading, denialPlay>>

\* handleTwilioMessage, case "media"
TwilioMedia(c, ts) ==
    /\ tw[c] \in {"open", "closing"}
    /\ LET s == Lookup(sessions, SessionIdOf(c))
       IN IF s = NoSession
          THEN UNCHANGED <<obs, session>>
          ELSE LET sid == session[s].streamSid
                   written == /\ recordingMode = "local"
                              /\ sid # NoKey
                              /\ HasRecording(localRec[KeyOwner(sid)])
               IN obs' = [d \in Calls |->
                    LET o1 == IF d = s
                              THEN [obs[d] EXCEPT
                                      !.mediaFrom = @ \cup {c},
                                      !.modelIn = IF isOpenModel(s)
                                                  THEN @ \cup {c} ELSE @,
                                      !.badWrite = @ \/ (isOpenModel(s)
                                                     /\ msock[s] # "open"),
                                      !.media = IF isOpenModel(s)
                                                THEN "forwarded"
                                                ELSE "dropped"]
                              ELSE obs[d]
                    IN IF written /\ d = KeyOwner(sid)
                       THEN [o1 EXCEPT !.inboundRecorded = TRUE]
                       ELSE o1]
                  \* Twilio's media timestamps never decrease within a stream
                  /\ ts >= session[s].latestMediaTimestamp
                  /\ session' = [session EXCEPT ![s].latestMediaTimestamp = ts]
    /\ UNCHANGED <<stale, logs, config, currentCall, activeCalls, audioCached, tw, msock,
                   started, sessions, startPending, greetPending,
                   localRec, task, invoked, sessionControl, denialLoading,
                   denialPlay>>

\* closeAllConnections(session)
closeAllConnectionsKeepsStreamSid(sr) ==
    [ResetTracking(sr) EXCEPT !.twilioConn = FALSE, !.modelConn = FALSE,
                              !.frontendConn = FALSE,
                              !.saved_config = NoConfig,
                              !.latestMediaTimestamp = 0]
closeAllConnections(sr) ==
    [ResetTracking(sr) EXCEPT !.twilioConn = FALSE, !.modelConn = FALSE,
                              !.frontendConn = FALSE,
                              !.saved_config = NoConfig,
                              !.streamSid = NoKey, !.latestMediaTimestamp = 0]

\* handleTwilioMessage, case "close"
TwilioCloseMsg(c) ==
    /\ tw[c] \in {"open", "closing"}
    /\ LET s == Lookup(sessions, SessionIdOf(c))
       IN IF s = NoSession
          THEN UNCHANGED <<session, tw, msock, localRec, logs, obs>>
          ELSE LET sid == session[s].streamSid
               IN /\ obs' = MarkStopped(
                              [obs EXCEPT ![c].closeSeen = @ \/ sid # NoKey],
                              sid)
                  /\ localRec' = IF sid # NoKey /\ recordingMode = "local"
                                 THEN [localRec EXCEPT
                                         ![KeyOwner(sid)] = stopRecording(@)]
                                 ELSE localRec
                  /\ tw' = IF session[s].twilioConn
                           THEN [tw EXCEPT ![s] = CloseSock(@)] ELSE tw
                  /\ msock' = IF session[s].modelConn
                              THEN [msock EXCEPT ![s] = CloseSock(@)] ELSE msock
                  /\ logs' = IF session[s].frontendConn
                             THEN [logs EXCEPT !.conn[s].sock = CloseSock(@)]
                             ELSE logs
                  /\ session' = [session EXCEPT ![s] = closeAllConnections(@)]
    /\ UNCHANGED <<stale, config, currentCall, activeCalls, audioCached, started,
                   sessions, startPending, greetPending, task, invoked,
                   sessionControl, denialLoading, denialPlay>>

\* ws.on("close") of the telephony socket (and activeCalls.delete)
TwilioSockClose(c) ==
    /\ tw[c] \in {"open", "closing"}
    /\ tw' = [tw EXCEPT ![c] = "closed"]
    /\ LET sid == session[c].streamSid
           moved == {k \in Keys : sessions[k] = c /\ k # TempId(c)}
           actualStreamSid ==
               IF sid # NoKey THEN sid
               ELSE IF moved # {} THEN CHOOSE k \in moved : TRUE
               ELSE TempId(c)
       IN /\ localRec' = IF sid # NoKey /\ recordingMode = "local"
                         THEN [localRec EXCEPT ![KeyOwner(sid)] = stopRecording(@)]
                         ELSE localRec
          /\ msock' = [msock EXCEPT
                         ![c] = cleanupConnection(session[c].modelConn, @)]
          /\ sessions' = removeSession(removeSession(sessions, TempId(c)),
                                       actualStreamSid)
          /\ obs' = MarkStopped(obs, sid)
    /\ activeCalls' = IF serverKind = "active_calls"
                      THEN activeCalls \ {c} ELSE activeCalls
    /\ UNCHANGED <<stale, logs, config, currentCall, audioCached, started, session,
                   startPending, greetPending, task, invoked, sessionControl,
                   denialLoading, denialPlay>>

\* ------------------------------------------------------------ model leg
\* the session.update of the "open" handler (no saved_config)
sessionConfig == [tools |-> Functions, instructions |-> SYSTEM_PROMPT]

\* the session.update of the "open" handler: `...config` is spread last, so
\* every key of saved_config replaces the default
MergedConfigDefaultsWin(cfg) == sessionConfig
MergedConfig(cfg) ==
    [tools |-> IF "tools" \in cfg.has THEN cfg.tools ELSE sessionConfig.tools,
     instructions |-> IF "instructions" \in cfg.has THEN cfg.instructions
                      ELSE sessionConfig.instructions]

\* closeModel(session), once the socket's own state is st
closeModel(sr) == [sr EXCEPT !.modelConn = FALSE]

\* session.modelConn.on("open")
ModelOpen(s) ==
    /\ msock[s] = "connecting"
    /\ msock' = [msock EXCEPT ![s] = "open"]
    /\ obs' = IF session[s].modelConn
              THEN [obs EXCEPT ![s].setup = MergedConfig(session[s].saved_config),
                               ![s].configured = TRUE]
              ELSE obs
    /\ greetPending' = [greetPending EXCEPT ![s] = TRUE]
    /\ UNCHANGED <<stale, logs, config, currentCall, activeCalls, audioCached, tw, started,
                   sessions, session, startPending, localRec, task, invoked,
                   sessionControl, denialLoading, denialPlay>>

\* the greeting setTimeout fires: sends only if (isOpen(session.modelConn))
GreetingTimer(s) ==
    /\ greetPending[s]
    /\ greetPending' = [greetPending EXCEPT ![s] = FALSE]
    /\ LET wrote == isOpenModel(s)
       IN obs' = [obs EXCEPT
                    ![s].greeting = IF wrote THEN INITIAL_GREETING.message
                                    ELSE @,
                    ![s].skipped = IF wrote THEN @ ELSE @ \cup {"greeting"},
                    ![s].badWrite = @ \/ (wrote /\ msock[s] # "open")]
    /\ UNCHANGED <<stale, logs, config, currentCall, activeCalls, audioCached, tw, msock,
                   started, sessions, session, startPending, localRec, task,
                   invoked, sessionControl, denialLoading, denialPlay>>

\* session.modelConn.on("error") / on("close"): the handshake fails, the peer
\* closes, or the close the server began completes
ModelSockClose(s) ==
    /\ msock[s] \in {"connecting", "aborting", "open", "closing"}
    /\ msock' = [msock EXCEPT ![s] = "closed"]
    /\ session' = [session EXCEPT ![s] = closeModel(@)]
    /\ UNCHANGED <<stale, logs, config, currentCall, activeCalls, audioCached, tw, started,
                   sessions, startPending, greetPending, localRec, task,
                   invoked, sessionControl, denialLoading, denialPlay, obs>>

\* the two sends of the "response.audio.delta" case, each through jsonSend
DeltaSendsNoMark(twOpen, sid) ==
    IF twOpen THEN <<[event |-> "media", streamSid |-> sid]>> ELSE << >>
DeltaSends(twOpen, sid) ==
    IF twOpen
    THEN <<[event |-> "media", streamSid |-> sid],
           [event |-> "mark", streamSid |-> sid]>>
    ELSE << >>

\* handleModelMessage, case "response.audio.delta" (a socket that began to
\* close still delivers the frames its peer sent before the close frame)
ModelAudioDelta(s, item) ==
    /\ msock[s] \in {"open", "closing"}
    \* at most MaxDeltas deltas of one item, and of two items without a reset
    /\ session[s].audioChunkCount <
          (IF item = session[s].lastAssistantItem THEN MaxDeltas
           ELSE 2 * MaxDeltas)
    /\ obs' = IF session[s].twilioConn /\ session[s].streamSid # NoKey
                 /\ isOpenTw(s)
              THEN [obs EXCEPT ![s].twilioOut = @ \cup {s},
                               ![s].lateAudio = @ \/ obs[s].denialBegun,
                               ![s].badWrite = @ \/ tw[s] # "open",
                               ![s].deltaOut =
                                   DeltaSends(TRUE, session[s].streamSid)]
              ELSE [obs EXCEPT ![s].deltaOut =
                                   DeltaSends(FALSE, session[s].streamSid)]
    /\ session' =
          IF session[s].twilioConn /\ session[s].streamSid # NoKey
          THEN LET count == IF session[s].responseStartTimestamp = NoTime
                            THEN 0 ELSE session[s].audioChunkCount
               IN [session EXCEPT
                     ![s].responseStartTimestamp =
                         IF @ = NoTime THEN session[s].latestMediaTimestamp
                         ELSE @,
                     ![s].lastAssistantItem = item,
                     ![s].audioChunkCount = count + 1,
                     ![s].audioDurationMs = (count + 1) * 20]
          ELSE session
    /\ UNCHANGED <<stale, logs, config, currentCall, activeCalls, audioCached, tw, msock,
                   started, sessions, startPending, greetPending,
                   localRec, task, invoked, sessionControl, denialLoading,
                   denialPlay>>

\* ---------------------------------------------------------------- barge-in
MIN_TRUNCATION_MS == 100
EstimateSlackMs == 100            \* audio_end_ms > audioDurationMs + 100

\* the messages of handleTruncation and of the error handler
TruncateMsg(item, ms) ==
    [to |-> "model", type |-> "conversation.item.truncate", item_id |-> item,
     content_index |-> 0, audio_end_ms |-> ms]
ClearMsg == [to |-> "twilio", type |-> "clear", item_id |-> NoItem,
             content_index |-> 0, audio_end_ms |-> 0]

\* elapsedMs > 0 ? elapsedMs : 0
AudioEndMs(sr) ==
    LET elapsedMs == sr.latestMediaTimestamp - sr.responseStartTimestamp
    IN IF elapsedMs > 0 THEN elapsedMs ELSE 0

\* an utterance is in flight: handleTruncation passes its first return
InFlightAlways(sr) == TRUE
InFlight(sr) == sr.lastAssistantItem # NoItem /\ sr.responseStartTimestamp # NoTime

\* if (audio_end_ms < MIN_TRUNCATION_MS)
TooShortNever(ms) == FALSE
TooShort(ms) == ms < MIN_TRUNCATION_MS

\* if (session.audioDurationMs && audio_end_ms > session.audioDurationMs + 100)
ExceedsEstimateNever(ms, dur) == FALSE
ExceedsEstimate(ms, dur) == dur # 0 /\ ms > dur + EstimateSlackMs

\* the sends of a truncation that passed both guards: each goes out only on
\* an open leg
TruncationSendsClearFirst(modelOpen, twOpen, item, ms) ==
    (IF twOpen THEN <<ClearMsg>> ELSE << >>)
        \o (IF modelOpen THEN <<TruncateMsg(item, ms)>> ELSE << >>)
TruncationSends(modelOpen, twOpen, item, ms) ==
    (IF modelOpen THEN <<TruncateMsg(item, ms)>> ELSE << >>)
        \o (IF twOpen THEN <<ClearMsg>> ELSE << >>)

\* handleTruncation(session): the Session afterwards and what was sent
handleTruncation(sr, modelOpen, twOpen) ==
    IF ~InFlight(sr)
    THEN [session |-> sr, sends |-> << >>]
    ELSE IF TooShort(AudioEndMs(sr))
    THEN [session |-> ResetTracking(sr), sends |-> << >>]
    ELSE IF ExceedsEstimate(AudioEndMs(sr), sr.audioDurationMs)
    THEN [session |-> ResetTracking(sr),
          sends |-> IF twOpen THEN <<ClearMsg>> ELSE << >>]
    ELSE [session |-> ResetTracking(sr),
          sends |-> TruncationSends(modelOpen, twOpen, sr.lastAssistantItem,
                                    AudioEndMs(sr))]

\* session.twilioConn && session.streamSid && isOpen(session.twilioConn)
CanClear(s) == session[s].streamSid # NoKey /\ isOpenTw(s)

\* handleModelMessage, case "input_audio_buffer.speech_started"
ModelSpeechStarted(s) ==
    /\ msock[s] \in {"open", "closing"}
    /\ LET r == handleTruncation(session[s], isOpenModel(s), CanClear(s))
       IN /\ session' = [session EXCEPT ![s] = r.session]
          /\ obs' = [obs EXCEPT ![s].last =
                        [seq |-> 1 - obs[s].last.seq, event |-> "speech_started",
                         error |-> NoError,
                         inFlight |-> InFlight(session[s]),
                         elapsed |-> IF InFlight(session[s])
                                     THEN AudioEndMs(session[s]) ELSE 0,
                         estimate |-> session[s].audioDurationMs,
                         sends |-> r.sends]]
    /\ UNCHANGED <<stale, logs, config, currentCall, activeCalls, audioCached, tw, msock,
                   started, sessions, startPending, greetPending, localRec,
                   task, invoked, sessionControl, denialLoading, denialPlay>>

\* the "error" events the model leg may deliver
ErrorEvents ==
    {[type |-> "invalid_value", audioContent |-> TRUE, shorterThan |-> TRUE],
     [type |-> "invalid_value", audioContent |-> FALSE, shorterThan |-> FALSE],
     [type |-> "server_error", audioContent |-> FALSE, shorterThan |-> FALSE]}

\* the test of the error branch: a truncation beyond the audio the model has
TruncationErrorNever(e) == FALSE
TruncationError(e) ==
    e.type = "invalid_value" /\ e.audioContent /\ e.shorterThan

\* handleModelMessage, event.type === "error"
ModelError(s, e) ==
    /\ msock[s] \in {"open", "closing"}
    /\ session' = IF TruncationError(e)
                  THEN [session EXCEPT ![s] = ResetTracking(@)] ELSE session
    \* the truncation branch returns before jsonSend(session.frontendConn, event)
    /\ obs' = [obs EXCEPT ![s].last =
                  [seq |-> 1 - obs[s].last.seq, event |-> "error", error |-> e,
                   inFlight |-> InFlight(session[s]), elapsed |-> 0,
                   estimate |-> session[s].audioDurationMs,
                   sends |-> IF TruncationError(e) /\ CanClear(s)
                             THEN <<ClearMsg>> ELSE << >>],
                          ![s].unmirrored =
                              @ \/ (TruncationError(e) /\ isOpenFront(s))]
    /\ UNCHANGED <<stale, logs, config, currentCall, activeCalls, audioCached, tw, msock,
                   started, sessions, startPending, greetPending, localRec,
                   task, invoked, sessionControl, denialLoading, denialPlay>>

\* ---------------------------------------------------------- repeated start
\* handleTwilioMessage, case "start", for a 'start' frame that is not the
\* stream's first.  At most one model socket per Session is left superseded,
\* and at most one 'start' handler is suspended at a time.
TwilioRestart(c) ==
    /\ tw[c] \in {"open", "closing"}
    /\ started[c]
    /\ LET sessionId == SessionIdOf(c)
           s == Lookup(sessions, sessionId)
           realStreamSid == StreamSidOf(c)
       IN /\ s \in Calls
          /\ stale[s] = "none"
          /\ ~startPending[s]
          /\ LET moved == [ResetTracking(session[s]) EXCEPT
                                 !.streamSid = realStreamSid,
                                 !.latestMediaTimestamp = 0]
                  o == KeyOwner(realStreamSid)
             IN /\ sessions' = [[sessions EXCEPT ![sessionId] = NoSession]
                                    EXCEPT ![realStreamSid] = s]
                /\ localRec' = IF recordingMode = "local"
                               THEN [localRec EXCEPT ![o] = startRecording(@)]
                               ELSE localRec
                /\ startPending' = IF recordingMode = "twilio"
                                   THEN [startPending EXCEPT ![s] = TRUE]
                                   ELSE startPending
                /\ IF recordingMode # "twilio" /\ tryConnectModel(moved, msock[s])
                   THEN /\ session' = [session EXCEPT ![s] =
                                          [moved EXCEPT !.modelConn = TRUE]]
                        /\ msock' = [msock EXCEPT ![s] = "connecting"]
                        /\ stale' = [stale EXCEPT
                                       ![s] = Superseded(@, msock[s])]
                        /\ obs' = [obs EXCEPT ![s].configured = FALSE]
                   ELSE /\ session' = [session EXCEPT ![s] = moved]
                        /\ UNCHANGED <<msock, stale, obs>>
    /\ UNCHANGED <<logs, config, currentCall, activeCalls, audioCached, tw,
                   started, greetPending, task, invoked, sessionControl,
                   denialLoading, denialPlay>>

\* tryConnectModel: modelConn.on("open"), emitted by a superseded socket.  The
\* handler writes to session.modelConn, which is the socket that replaced it.
StaleModelOpen(s) ==
    /\ stale[s] = "connecting"
    /\ stale' = [stale EXCEPT ![s] = "open"]
    /\ obs' = IF isOpenModel(s)
              THEN [obs EXCEPT ![s].setup = MergedConfig(session[s].saved_config),
                               ![s].configured = TRUE]
              ELSE obs
    /\ greetPending' = [greetPending EXCEPT ![s] = TRUE]
    /\ UNCHANGED <<logs, config, currentCall, activeCalls, audioCached, tw, msock,
                   started, sessions, session, startPending, localRec, task,
                   invoked, sessionControl, denialLoading, denialPlay>>

\* tryConnectModel: modelConn.on("close"), emitted by a superseded socket:
\* closeModel(session) closes and clears session.modelConn
StaleModelSockClose(s) ==
    /\ stale[s] \in {"connecting", "aborting", "open", "closing"}
    /\ stale' = [stale EXCEPT ![s] = "closed"]
    /\ msock' = [msock EXCEPT
                   ![s] = cleanupConnection(session[s].modelConn, @)]
    /\ session' = [session EXCEPT ![s] = closeModel(@)]
    /\ UNCHANGED <<logs, config, currentCall, activeCalls, audioCached, tw, started,
                   sessions, startPending, greetPending, localRec, task,
                   invoked, sessionControl, denialLoading, denialPlay, obs>>

\* ------------------------------------------------------------ observer leg
\* the streamSid argument of handleFrontendConnection: none (the servers call
\* handleFrontendConnection(currentLogs)) or the stream the observer watches
FrontendKeys(f) == {NoKey, StreamSidOf(f)}

\* the session.update messages an observer sends
Overrides ==
    {[has |-> {"instructions"}, tools |-> {}, instructions |-> "custom_a"],
     [has |-> {"tools"}, tools |-> {"custom_tool"}, instructions |-> ""],
     [has |-> {"tools", "instructions"}, tools |-> {"custom_tool"},
      instructions |-> "custom_b"]}

\* wss.on("connection"), type "logs": the previous observer is closed, then
\* handleFrontendConnection(ws, streamSid).  One observer connects per
\* stream id, so cleanupConnection(session.frontendConn) finds none.
FrontendConnect(f, k) ==
    /\ logs.conn[f].sock = "idle"
    /\ LET target == IF k = NoKey THEN NoSession
                     ELSE IF sessions[k] = NoSession THEN Orphan(f)
                     ELSE sessions[k]
           others == [g \in Calls |->
                        IF g = logs.current
                        THEN [logs.conn[g] EXCEPT !.sock = CloseSock(@)]
                        ELSE logs.conn[g]]
       IN /\ sessions' = IF target = Orphan(f)
                         THEN [sessions EXCEPT ![k] = Orphan(f)] ELSE sessions
          /\ session' = IF target \in Calls
                        THEN [session EXCEPT ![target].frontendConn = TRUE]
                        ELSE session
          /\ logs' = [current |-> f,
                      conn |-> [others EXCEPT ![f] =
                                  IF k = NoKey
                                  THEN [@ EXCEPT !.sock = "closing"]
                                  ELSE [@ EXCEPT
                                          !.sock = "open", !.held = target,
                                          !.frontendConn = (target = Orphan(f))]]]
    /\ UNCHANGED <<stale, config, currentCall, activeCalls, audioCached, tw, msock,
                   started, startPending, greetPending, localRec, task,
                   invoked, sessionControl, denialLoading, denialPlay, obs>>

\* handleFrontendMessage on a session.update: forwarded to the model leg when
\* that is open, and saved on the Session the observer attached to
FrontendMessage(f, cfg) ==
    /\ logs.conn[f].sock \in {"open", "closing"}
    /\ logs.conn[f].held # NoSession
    /\ LET h == logs.conn[f].held
       IN IF h \in Calls
          THEN /\ session' = [session EXCEPT ![h].saved_config = cfg]
               /\ obs' = [obs EXCEPT ![h].override = cfg]
               /\ UNCHANGED logs
          ELSE /\ logs' = [logs EXCEPT !.conn[f].saved_config = cfg]
               /\ UNCHANGED <<session, obs>>
    /\ UNCHANGED <<stale, config, currentCall, activeCalls, audioCached, tw, msock,
                   started, sessions, startPending, greetPending, localRec,
                   task, invoked, sessionControl, denialLoading, denialPlay>>

\* ws.on("close") of an observer socket: session.frontendConn = undefined,
\* and removeSession(streamSid) if that Session has neither other leg
FrontendSockClose(f) ==
    /\ logs.conn[f].sock \in {"open", "closing"}
    /\ LET h == logs.conn[f].held
           bare == IF h \in Calls
                   THEN ~session[h].twilioConn /\ ~session[h].modelConn
                   ELSE h # NoSession
       IN /\ logs' = [logs EXCEPT !.conn[f].sock = "closed",
                                  !.conn[f].frontendConn = FALSE]
          /\ session' = IF h \in Calls
                        THEN [session EXCEPT ![h].frontendConn = FALSE]
                        ELSE session
          /\ sessions' = IF bare THEN removeSession(sessions, StreamSidOf(f))
                         ELSE sessions
    /\ UNCHANGED <<stale, config, currentCall, activeCalls, audioCached, tw, msock,
                   started, startPending, greetPending, localRec, task,
                   invoked, sessionControl, denialLoading, denialPlay, obs>>

\* --------------------------------------------------------- malformed frames
\* frames that are not what their handler expects: text that is not JSON,
\* {event: "start"} and {event: "start", start: {}} on the telephony leg,
\* {type: "response.output_item.done"} on the model leg
TwilioMalformedKinds ==
    {"unparseable", "start_without_start", "start_without_streamSid"}
ModelMalformedKinds == {"unparseable", "item_done_without_item"}

\* handleTwilioMessage on such a frame.  msg.start.streamSid throws a
\* TypeError when msg.start is missing: the async handler's promise rejects
\* and nobody awaits it.  With start = {} the handler runs on with
\* realStreamSid undefined: the Session is filed under the key undefined,
\* which no lookup uses, and tryConnectModel returns at its first test.
TwilioMalformed(c, kind) ==
    /\ tw[c] \in {"open", "closing"}
    /\ LET sessionId == SessionIdOf(c)
           s == Lookup(sessions, sessionId)
           handled == kind # "unparseable" /\ s # NoSession
           throws == handled /\ kind = "start_without_start"
           moves == handled /\ kind = "start_without_streamSid"
       IN /\ sessions' = IF moves
                         THEN [sessions EXCEPT ![sessionId] = NoSession]
                         ELSE sessions
          /\ session' = IF moves
                        THEN [session EXCEPT ![s] =
                                [ResetTracking(@) EXCEPT
                                    !.streamSid = NoKey,
                                    !.latestMediaTimestamp = 0]]
                        ELSE session
          /\ startPending' = IF moves /\ recordingMode = "twilio"
                             THEN [startPending EXCEPT ![s] = TRUE]
                             ELSE startPending
          /\ obs' = [obs EXCEPT ![c].frames = 1 - @,
                                ![c].escaped = @ \/ throws]
    /\ UNCHANGED <<stale, logs, config, currentCall, activeCalls, audioCached, tw, msock,
                   started, greetPending, localRec, task, invoked,
                   sessionControl, denialLoading, denialPlay>>

\* handleModelMessage on such a frame: `const { item } = event` leaves item
\* undefined and item.type throws out of the "message" listener
ModelMalformed(s, kind) ==
    /\ msock[s] \in {"open", "closing"}
    /\ obs' = [obs EXCEPT ![s].frames = 1 - @,
                          ![s].escaped = @ \/ kind = "item_done_without_item"]
    /\ UNCHANGED <<stale, logs, config, currentCall, activeCalls, audioCached, tw, msock,
                   started, sessions, session, startPending, greetPending,
                   localRec, task, invoked, sessionControl, denialLoading,
                   denialPlay>>

\* ------------------------------------------------------- tool invocations
Invocations ==
    {[name |-> "hang_up_call", reason |-> "consent_denied"],
     [name |-> "hang_up_call", reason |-> "user_request"],
     [name |-> "continue_with_consent", reason |-> ""],
     [name |-> "clarify_consent", reason |-> ""],
     [name |-> "tavily_search", reason |-> ""]}

\* a name functions.find(...) does not find
UnknownFunction == [name |-> "unknown_function", reason |-> ""]

\* handlers that read a property of args outside any try block: valid JSON
\* arguments such as `null` make them throw before they assign anything
ThrowingHandlers == {"hang_up_call", "clarify_consent"}

\* the function_call items of one run: name, call id, arguments
ToolItems ==
    {[inv |-> i, call_id |-> id, argsOk |-> ok, throws |-> th] :
        i \in Invocations \cup {UnknownFunction},
        id \in 1..MaxInvocations, ok \in BOOLEAN, th \in BOOLEAN}
ValidItem(it) ==
    it.throws => (it.argsOk /\ it.inv.name \in ThrowingHandlers)

\* well-formed items for registered functions, each under a fresh call id
PlainItems(s) ==
    {[inv |-> i, call_id |-> invoked[s] + 1, argsOk |-> TRUE, throws |-> FALSE] :
        i \in Invocations}

RECURSIVE SumTo(_, _)
SumTo(f, n) == IF n = 0 THEN 0 ELSE f[n] + SumTo(f, n - 1)

\* handleModelMessage, case "response.output_item.done": handleFunctionCall(item)
ModelFunctionCall(s, it) ==
    /\ msock[s] \in {"open", "closing"}
    /\ ValidItem(it)
    /\ task[s] = NoTask
    /\ SumTo(invoked, NumCalls) < MaxInvocations
    /\ invoked' = [invoked EXCEPT ![s] = @ + 1]
    /\ task' = [task EXCEPT ![s] =
                  [name |-> it.inv.name, reason |-> it.inv.reason,
                   stage |-> "running", call_id |-> it.call_id,
                   argsOk |-> it.argsOk, throws |-> it.throws,
                   output |-> "none"]]
    /\ UNCHANGED <<stale, logs, config, currentCall, activeCalls, audioCached, tw, msock,
                   started, sessions, session, startPending, greetPending,
                   localRec, sessionControl, denialLoading, denialPlay, obs>>

\* the handlers of functionHandlers.ts, on sessionControl
HandlerClarifySwaps(name, reason, sc) ==
    CASE name = "hang_up_call" ->
           IF reason = "consent_denied"
           THEN [sc EXCEPT !.shouldHangUp = TRUE, !.hangUpReason = reason,
                           !.shouldPlayConsentDenialAudio = TRUE,
                           !.consentHandled = TRUE,
                           !.shouldUpdateFunctions = TRUE]
           ELSE [sc EXCEPT !.shouldHangUp = TRUE, !.hangUpReason = reason]
      [] name \in {"continue_with_consent", "clarify_consent"} ->
           [sc EXCEPT !.consentHandled = TRUE, !.shouldUpdateFunctions = TRUE]
      [] OTHER -> sc
Handler(name, reason, sc) ==
    CASE name = "hang_up_call" ->
           IF reason = "consent_denied"
           THEN [sc EXCEPT !.shouldHangUp = TRUE, !.hangUpReason = reason,
                           !.shouldPlayConsentDenialAudio = TRUE,
                           !.consentHandled = TRUE,
                           !.shouldUpdateFunctions = TRUE]
           ELSE [sc EXCEPT !.shouldHangUp = TRUE, !.hangUpReason = reason]
      [] name = "continue_with_consent" ->
           [sc EXCEPT !.consentHandled = TRUE, !.shouldUpdateFunctions = TRUE]
      [] OTHER -> sc

\* handleFunctionCall(item): how its promise settles, whether the handler
\* was called, and the output it resolves to
handleFunctionCallNoCatch(registered, argsOk, throws) ==
    IF ~registered
    THEN [settled |-> "rejected", called |-> FALSE, output |-> "none"]
    ELSE IF ~argsOk
    THEN [settled |-> "resolved", called |-> FALSE,
          output |-> "Invalid JSON arguments for function call."]
    ELSE IF throws
    THEN [settled |-> "rejected", called |-> TRUE, output |-> "none"]
    ELSE [settled |-> "resolved", called |-> TRUE, output |-> "result"]
handleFunctionCallParseThrows(registered, argsOk, throws) ==
    IF ~registered \/ ~argsOk
    THEN [settled |-> "rejected", called |-> FALSE, output |-> "none"]
    ELSE IF throws
    THEN [settled |-> "resolved", called |-> TRUE,
          output |-> "Error running function"]
    ELSE [settled |-> "resolved", called |-> TRUE, output |-> "result"]
handleFunctionCallUnknownResolves(registered, argsOk, throws) ==
    IF ~registered
    THEN [settled |-> "resolved", called |-> FALSE,
          output |-> "No handler found for function"]
    ELSE IF ~argsOk
    THEN [settled |-> "resolved", called |-> FALSE,
          output |-> "Invalid JSON arguments for function call."]
    ELSE IF throws
    THEN [settled |-> "resolved", called |-> TRUE,
          output |-> "Error running function"]
    ELSE [settled |-> "resolved", called |-> TRUE, output |-> "result"]
handleFunctionCall(registered, argsOk, throws) ==
    IF ~registered
    THEN [settled |-> "rejected", called |-> FALSE, output |-> "none"]
    ELSE IF ~argsOk
    THEN [settled |-> "resolved", called |-> FALSE,
          output |-> "Invalid JSON arguments for function call."]
    ELSE IF throws
    THEN [settled |-> "resolved", called |-> TRUE,
          output |-> "Error running function"]
    ELSE [settled |-> "resolved", called |-> TRUE, output |-> "result"]

\* await fnDef.handler(args): handleFunctionCall has run to its end
HandlerCompletes(s) ==
    /\ task[s].stage = "running"
    /\ LET r == handleFunctionCall(task[s].name \in Functions, task[s].argsOk,
                                   task[s].throws)
           ran == r.called /\ ~task[s].throws
       IN /\ task' = [task EXCEPT ![s].stage = r.settled,
                                  ![s].output = r.output]
          /\ sessionControl' =
                IF ran THEN Handler(task[s].name, task[s].reason, sessionControl)
                ELSE sessionControl
          /\ obs' = [obs EXCEPT
                ![s].affirmed = @ \/ (ran /\ task[s].name = "continue_with_consent"),
                ![s].ranIds = IF r.called THEN @ \cup {task[s].call_id} ELSE @,
                ![s].reran = IF r.called /\ task[s].call_id \in obs[s].ranIds
                             THEN @ \cup {task[s].call_id} ELSE @]
    /\ UNCHANGED <<stale, logs, config, currentCall, activeCalls, audioCached, tw, msock,
                   started, sessions, session, startPending, greetPending,
                   localRec, invoked, denialLoading, denialPlay>>

\* "Reset the control flags"
ResetFlagsAndPhase(sc) ==
    [sc EXCEPT !.shouldHangUp = FALSE, !.hangUpReason = "",
               !.shouldPlayConsentDenialAudio = FALSE,
               !.consentHandled = FALSE, !.shouldUpdateFunctions = FALSE]
ResetFlags(sc) ==
    [sc EXCEPT !.shouldHangUp = FALSE, !.hangUpReason = "",
               !.shouldPlayConsentDenialAudio = FALSE]

\* "Close the OpenAI connection immediately": the socket after the hang-up
HangUpModelLeftOpen(defined, st) == st
HangUpModel(defined, st) == IF defined /\ st = "open" THEN "closing" ELSE st

\* the two sends of the result callback
ToolOutputMsgs(call_id, output) ==
    << [type |-> "conversation.item.create", call_id |-> call_id,
        output |-> output],
       [type |-> "response.create", call_id |-> 0, output |-> "none"] >>

\* handleFunctionCall(item).then(output => ...).catch(...)
FunctionCallback(s) ==
    /\ task[s].stage \in {"resolved", "rejected"}
    /\ task' = [task EXCEPT ![s] = NoTask]
    /\ IF task[s].stage = "rejected" \/ ~session[s].modelConn
       THEN /\ obs' = [obs EXCEPT ![s].toolOut = << >>]
            /\ UNCHANGED <<session, msock, tw, sessionControl, denialLoading>>
       ELSE LET sent == isOpenModel(s)
                \* trackFunctionCall(..., JSON.parse(item.arguments), ...)
                \* throws on malformed arguments: the callback ends there
                parseThrows == session[s].streamSid # NoKey /\ ~task[s].argsOk
                hang == sessionControl.shouldHangUp /\ ~parseThrows
                play == /\ sessionControl.shouldPlayConsentDenialAudio
                        /\ session[s].twilioConn
                        /\ session[s].streamSid # NoKey
                o0 == [obs[s] EXCEPT !.toolOut =
                         IF sent
                         THEN ToolOutputMsgs(task[s].call_id, task[s].output)
                         ELSE << >>]
                o1 == IF sent /\ task[s].name = "continue_with_consent"
                         /\ task[s].output = "result"
                      THEN [o0 EXCEPT !.affirmDone = TRUE] ELSE o0
            IN IF ~hang
               THEN /\ obs' = [obs EXCEPT ![s] = o1]
                    /\ UNCHANGED <<session, msock, tw, sessionControl,
                                   denialLoading>>
               ELSE /\ msock' = [msock EXCEPT
                                   ![s] = HangUpModel(session[s].modelConn, @)]
                    /\ session' = IF isOpenModel(s)
                                  THEN [session EXCEPT ![s].modelConn = FALSE]
                                  ELSE session
                    /\ denialLoading' = IF play
                                        THEN [denialLoading EXCEPT ![s] = TRUE]
                                        ELSE denialLoading
                    /\ tw' = IF ~play /\ isOpenTw(s)
                             THEN [tw EXCEPT ![s] = "closing"] ELSE tw
                    /\ sessionControl' = ResetFlags(sessionControl)
                    /\ obs' = [obs EXCEPT ![s] =
                                 [o1 EXCEPT !.hungUpBy = @ \cup {task[s].name},
                                            !.denialBegun = @ \/ play]]
    /\ UNCHANGED <<stale, logs, config, currentCall, activeCalls, audioCached, started,
                   sessions, startPending, greetPending, localRec, invoked,
                   denialPlay>>

\* ------------------------------------------------------- denial playback
\* getConsentDenialAudioChunks().then: one timer per chunk, then the hang-up
\* hangupDelayMs = audioChunks.length * 20 + 1000
hangupDelayNone(n) == 0
hangupDelayMs(n) == n * 20 + 1000

\* the delay of timer p of a playback: chunk p at p * 20 ms, timer NumChunks
\* is the hang-up
DenialDue(p) == IF p < NumChunks THEN p * 20 ELSE hangupDelayMs(NumChunks)

\* timers armed in one tick fire by delay, equal delays in the order armed
FiresNext(pending, p) ==
    /\ p \in pending
    /\ \A q \in pending :
          \/ DenialDue(q) > DenialDue(p)
          \/ (DenialDue(q) = DenialDue(p) /\ q >= p)

DenialAudioLoaded(s) ==
    /\ denialLoading[s]
    /\ denialLoading' = [denialLoading EXCEPT ![s] = FALSE]
    /\ audioCached' = TRUE
    /\ denialPlay' = [denialPlay EXCEPT ![s] = 0..NumChunks]
    /\ UNCHANGED <<stale, logs, config, currentCall, activeCalls, tw, msock, started,
                   sessions, session, startPending, greetPending, localRec,
                   task, invoked, sessionControl, obs>>

\* getConsentDenialAudioChunks().catch: "Hang up immediately on error"
DenialAudioFailed(s) ==
    /\ denialLoading[s]
    /\ ~audioCached
    /\ denialLoading' = [denialLoading EXCEPT ![s] = FALSE]
    /\ tw' = IF isOpenTw(s) THEN [tw EXCEPT ![s] = "closing"] ELSE tw
    /\ UNCHANGED <<stale, logs, config, currentCall, activeCalls, audioCached, msock,
                   started, sessions, session, startPending, greetPending,
                   localRec, task, invoked, sessionControl, denialPlay, obs>>

\* timer p of a playback fires: a chunk is sent, or the leg is hung up
DenialTimer(s, p) ==
    /\ FiresNext(denialPlay[s], p)
    /\ denialPlay' = [denialPlay EXCEPT ![s] = @ \ {p}]
    /\ obs' = IF ~isOpenTw(s)
              THEN [obs EXCEPT ![s].skipped =
                               IF p < NumChunks THEN @ \cup {"denial"} ELSE @]
              ELSE IF p < NumChunks
              THEN [obs EXCEPT ![s].denialSent = @ \cup {p},
                               ![s].badWrite = @ \/ tw[s] # "open"]
              ELSE [obs EXCEPT ![s].denialHungUpAt = DenialDue(p)]
    /\ tw' = IF p = NumChunks /\ isOpenTw(s)
             THEN [tw EXCEPT ![s] = "closing"] ELSE tw
    /\ UNCHANGED <<stale, logs, config, currentCall, activeCalls, audioCached, msock,
                   started, sessions, session, startPending, greetPending,
                   localRec, task, invoked, sessionControl, denialLoading>>

\* ------------------------------------------------------------------ Next
Next ==
    \/ \E c \in Calls : AcceptSingleSlot(c)
    \/ \E c \in Calls : AcceptActiveCalls(c)
    \/ \E c \in Calls : TwilioStart(c)
    \/ \E c \in Calls, ok \in BOOLEAN : RecordingCallReturns(c, ok)
    \/ \E c \in Calls : LocalRecordingReady(c)
    \/ \E c \in Calls : TwilioMedia(c, 0)
    \/ \E c \in Calls : TwilioCloseMsg(c)
    \/ \E c \in Calls : TwilioSockClose(c)
    \/ \E s \in Calls : ModelOpen(s)
    \/ \E s \in Calls : GreetingTimer(s)
    \/ \E s \in Calls : ModelSockClose(s)
    \/ \E s \in Calls : ModelAudioDelta(s, "item_1")
    \/ \E s \in Calls, it \in ToolItems : ModelFunctionCall(s, it)
    \/ \E s \in Calls : HandlerCompletes(s)
    \/ \E s \in Calls : FunctionCallback(s)
    \/ \E s \in Calls : DenialAudioLoaded(s)
    \/ \E s \in Calls : DenialAudioFailed(s)
    \/ \E s \in Calls, p \in 0..NumChunks : DenialTimer(s, p)
    \/ \E s \in Calls : ModelSpeechStarted(s)
    \/ \E s \in Calls, e \in ErrorEvents : ModelError(s, e)
    \/ \E c \in Calls, k \in TwilioMalformedKinds : TwilioMalformed(c, k)
    \/ \E s \in Calls, k \in ModelMalformedKinds : ModelMalformed(s, k)
    \/ \E f \in Calls : \E k \in FrontendKeys(f) : FrontendConnect(f, k)
    \/ \E f \in Calls, cfg \in Overrides : FrontendMessage(f, cfg)
    \/ \E f \in Calls : FrontendSockClose(f)
    \/ \E c \in Calls : TwilioRestart(c)
    \/ \E s \in Calls : StaleModelOpen(s)
    \/ \E s \in Calls : StaleModelSockClose(s)

Spec == Init /\ [][Next]_vars

\* The relay alone: every deployment, the model leg issuing no tool invocation.
NextRelay ==
    \/ \E c \in Calls : AcceptSingleSlot(c)
    \/ \E c \in Calls : AcceptActiveCalls(c)
    \/ \E c \in Calls : TwilioStart(c)
    \/ \E c \in Calls, ok \in BOOLEAN : RecordingCallReturns(c, ok)
    \/ \E c \in Calls : LocalRecordingReady(c)
    \/ \E c \in Calls : TwilioMedia(c, 0)
    \/ \E c \in Calls : TwilioCloseMsg(c)
    \/ \E c \in Calls : TwilioSockClose(c)
    \/ \E s \in Calls : ModelOpen(s)
    \/ \E s \in Calls : ModelSockClose(s)
    \/ \E s \in Calls : ModelAudioDelta(s, "item_1")

SpecRelay == Init /\ [][NextRelay]_vars

\* The consent flow: the current server with consent handling on and
\* recording off, the model leg issuing tool invocations.
InitConsent == InitWith({"active_calls"}, {FALSE}, {"off"})

NextConsent ==
    \/ \E c \in Calls : AcceptActiveCalls(c)
    \/ \E c \in Calls : TwilioStart(c)
    \/ \E c \in Calls : TwilioCloseMsg(c)
    \/ \E c \in Calls : TwilioSockClose(c)
    \/ \E s \in Calls : ModelOpen(s)
    \/ \E s \in Calls : ModelSockClose(s)
    \/ \E s \in Calls : ModelAudioDelta(s, "item_1")
    \/ \E s \in Calls : \E it \in PlainItems(s) : ModelFunctionCall(s, it)
    \/ \E s \in Calls : HandlerCompletes(s)
    \/ \E s \in Calls : FunctionCallback(s)
    \/ \E s \in Calls : DenialAudioLoaded(s)
    \/ \E s \in Calls : DenialAudioFailed(s)
    \/ \E s \in Calls, p \in 0..NumChunks : DenialTimer(s, p)

SpecConsent == InitConsent /\ [][NextConsent]_vars

\* Barge-in: one call on the current server, its media timestamps and the
\* model leg's audio, speech-started and error events.
Timestamps == {0, 60, 100, 140}
Items == {"item_1", "item_2"}
TruncCalls == {1}

NextTrunc ==
    \/ \E c \in TruncCalls : AcceptActiveCalls(c)
    \/ \E c \in TruncCalls : TwilioStart(c)
    \/ \E c \in TruncCalls, ts \in Timestamps : TwilioMedia(c, ts)
    \/ \E c \in TruncCalls : TwilioCloseMsg(c)
    \/ \E c \in TruncCalls : TwilioSockClose(c)
    \/ \E s \in TruncCalls : ModelOpen(s)
    \/ \E s \in TruncCalls : ModelSockClose(s)
    \/ \E s \in TruncCalls, item \in Items : ModelAudioDelta(s, item)
    \/ \E s \in TruncCalls : ModelSpeechStarted(s)
    \/ \E s \in TruncCalls, e \in ErrorEvents : ModelError(s, e)

SpecTrunc == InitConsent /\ [][NextTrunc]_vars

\* Tool round trips: the current server, the model legs delivering arbitrary
\* function_call items (unknown names, malformed arguments, throwing
\* handlers, repeated call ids); no audio.
RoundTripItems ==
    {it \in ToolItems :
        /\ it.inv.name \in {"hang_up_call", "tavily_search", "unknown_function"}
        /\ it.inv.reason # "consent_denied"}

NextTools ==
    \/ \E c \in Calls : AcceptActiveCalls(c)
    \/ \E c \in Calls : TwilioStart(c)
    \/ \E c \in Calls : TwilioCloseMsg(c)
    \/ \E c \in Calls : TwilioSockClose(c)
    \/ \E s \in Calls : ModelOpen(s)
    \/ \E s \in Calls : ModelSockClose(s)
    \/ \E s \in Calls, it \in RoundTripItems : ModelFunctionCall(s, it)
    \/ \E s \in Calls : HandlerCompletes(s)
    \/ \E s \in Calls : FunctionCallback(s)

SpecTools == InitConsent /\ [][NextTools]_vars

\* the lifecycle of the two sockets of a call, with the frames that open and
\* close them
NextClose ==
    \/ \E c \in Calls : AcceptActiveCalls(c)
    \/ \E c \in Calls : TwilioStart(c)
    \/ \E c \in Calls : TwilioMedia(c, 0)
    \/ \E c \in Calls : TwilioCloseMsg(c)
    \/ \E c \in Calls : TwilioSockClose(c)
    \/ \E s \in Calls : ModelOpen(s)
    \/ \E s \in Calls : GreetingTimer(s)
    \/ \E s \in Calls : ModelSockClose(s)

\* Frame handling: the current server relaying two calls whose legs also
\* deliver malformed frames.
NextFrames ==
    \/ \E c \in Calls : AcceptActiveCalls(c)
    \/ \E c \in Calls : TwilioStart(c)
    \/ \E c \in Calls : TwilioMedia(c, 0)
    \/ \E c \in Calls : TwilioSockClose(c)
    \/ \E s \in Calls : ModelOpen(s)
    \/ \E s \in Calls : ModelSockClose(s)
    \/ \E c \in Calls, k \in TwilioMalformedKinds : TwilioMalformed(c, k)
    \/ \E s \in Calls, k \in ModelMalformedKinds : ModelMalformed(s, k)

SpecFrames == InitConsent /\ [][NextFrames]_vars

\* Observers: one call on the current server and the observer of its stream,
\* the model leg delivering error events.
NextObserver ==
    \/ \E c \in TruncCalls : AcceptActiveCalls(c)
    \/ \E c \in TruncCalls : TwilioStart(c)
    \/ \E c \in TruncCalls : TwilioCloseMsg(c)
    \/ \E c \in TruncCalls : TwilioSockClose(c)
    \/ \E s \in TruncCalls : ModelOpen(s)
    \/ \E s \in TruncCalls : ModelSockClose(s)
    \/ \E s \in TruncCalls, e \in ErrorEvents : ModelError(s, e)
    \/ \E f \in TruncCalls : \E k \in FrontendKeys(f) : FrontendConnect(f, k)
    \/ \E f \in TruncCalls, cfg \in Overrides : FrontendMessage(f, cfg)
    \/ \E f \in TruncCalls : FrontendSockClose(f)

SpecObserver == InitConsent /\ [][NextObserver]_vars

\* Overrides: two calls on the current server and the observers of their
\* streams, each sending a session.update of its own; the model legs deliver
\* nothing.
OwnOverride(f) ==
    IF f = 1
    THEN [has |-> {"instructions"}, tools |-> {}, instructions |-> "custom_a"]
    ELSE [has |-> {"tools", "instructions"}, tools |-> {"custom_tool"},
          instructions |-> "custom_b"]

\* One call whose telephony socket may repeat its 'start' frame, with the
\* model sockets this creates.
NextRestart ==
    \/ \E c \in TruncCalls : AcceptActiveCalls(c)
    \/ \E c \in TruncCalls : TwilioStart(c)
    \/ \E c \in TruncCalls : TwilioRestart(c)
    \/ \E c \in TruncCalls : TwilioMedia(c, 0)
    \/ \E c \in TruncCalls : TwilioSockClose(c)
    \/ \E s \in TruncCalls : ModelOpen(s)
    \/ \E s \in TruncCalls : ModelSockClose(s)
    \/ \E s \in TruncCalls : StaleModelOpen(s)
    \/ \E s \in TruncCalls : StaleModelSockClose(s)
    \/ \E s \in TruncCalls : GreetingTimer(s)
SpecRestart == InitConsent /\ [][NextRestart]_vars

\* Local recording: calls whose 'start' frame (possibly repeated) starts a
\* recording and whose close stops it, with the mkdir each start awaits.
InitRecording == InitWith({"active_calls"}, {FALSE}, {"local"})
NextRecording ==
    \/ \E c \in Calls : AcceptActiveCalls(c)
    \/ \E c \in Calls : TwilioStart(c)
    \/ \E c \in Calls : TwilioRestart(c)
    \/ \E c \in Calls : LocalRecordingReady(c)
    \/ \E c \in Calls : TwilioMedia(c, 0)
    \/ \E c \in Calls : TwilioCloseMsg(c)
    \/ \E c \in Calls : TwilioSockClose(c)
SpecRecording == InitRecording /\ [][NextRecording]_vars

\* Start-up under either setting of DISABLE_CONSENT_HANDLING: calls that
\* connect, start, get their model leg and their greeting.
InitStartup == InitWith({"active_calls"}, BOOLEAN, {"off"})
NextStartup ==
    \/ \E c \in Calls : AcceptActiveCalls(c)
    \/ \E c \in Calls : TwilioStart(c)
    \/ \E c \in Calls : TwilioSockClose(c)
    \/ \E s \in Calls : ModelOpen(s)
    \/ \E s \in Calls : ModelSockClose(s)
    \/ \E s \in Calls : GreetingTimer(s)
SpecStartup == InitStartup /\ [][NextStartup]_vars

NextOverride ==
    \/ \E c \in Calls : AcceptActiveCalls(c)
    \/ \E c \in Calls : TwilioStart(c)
    \/ \E c \in Calls : TwilioCloseMsg(c)
    \/ \E c \in Calls : TwilioSockClose(c)
    \/ \E s \in Calls : ModelOpen(s)
    \/ \E s \in Calls : ModelSockClose(s)
    \/ \E f \in Calls : \E k \in FrontendKeys(f) : FrontendConnect(f, k)
    \/ \E f \in Calls : FrontendMessage(f, OwnOverride(f))
    \/ \E f \in Calls : FrontendSockClose(f)

SpecOverride == InitConsent /\ [][NextOverride]_vars

\* Delayed effects: one call on the current server, its greeting timer and
\* the denial playback its consent refusal starts, with either leg closing at
\* any moment.
DenialItems(s) ==
    {it \in PlainItems(s) : it.inv.name = "hang_up_call"}

NextTimers ==
    \/ \E c \in TruncCalls : AcceptActiveCalls(c)
    \/ \E c \in TruncCalls : TwilioStart(c)
    \/ \E c \in TruncCalls : TwilioMedia(c, 0)
    \/ \E c \in TruncCalls : TwilioCloseMsg(c)
    \/ \E c \in TruncCalls : TwilioSockClose(c)
    \/ \E s \in TruncCalls : ModelOpen(s)
    \/ \E s \in TruncCalls : GreetingTimer(s)
    \/ \E s \in TruncCalls : ModelSockClose(s)
    \/ \E s \in TruncCalls : ModelAudioDelta(s, "item_1")
    \/ \E s \in TruncCalls : \E it \in DenialItems(s) : ModelFunctionCall(s, it)
    \/ \E s \in TruncCalls : HandlerCompletes(s)
    \/ \E s \in TruncCalls : FunctionCallback(s)
    \/ \E s \in TruncCalls : DenialAudioLoaded(s)
    \/ \E s \in TruncCalls : DenialAudioFailed(s)
    \/ \E s \in TruncCalls, p \in 0..NumChunks : DenialTimer(s, p)

SpecTimers == InitConsent /\ [][NextTimers]_vars

\* a handshake in progress ends, by the "open" event or by "error"/"close"
ModelHandshakeEnds(s) ==
    msock[s] = "connecting" /\ (ModelOpen(s) \/ ModelSockClose(s))

\* a close() the server began on the model socket completes with "close"
ModelCloseCompletes(s) ==
    msock[s] \in {"closing", "aborting"} /\ ModelSockClose(s)

\* the event loop runs every event that is due: handshakes end, closes the
\* server began complete, armed timers fire; the peers are free to never
\* send a frame or close
FairClose ==
    \A s \in Calls :
        /\ WF_vars(ModelHandshakeEnds(s))
        /\ WF_vars(ModelCloseCompletes(s))
        /\ WF_vars(GreetingTimer(s))

SpecClose == InitConsent /\ [][NextClose]_vars /\ FairClose

\* ------------------------------------------------------------------ claims
\* C1: a media frame received on call A's telephony socket updates only A's
\* Session and is appended only to A's model leg, and an audio delta received
\* on A's model leg is sent only to A's telephony socket, for every
\* interleaving of the calls and on either side of the 'start' re-keying.
C1_IdentityIsolation ==
    \A s \in Calls :
        /\ obs[s].mediaFrom \subseteq {s}
        /\ obs[s].modelIn \subseteq {s}
        /\ obs[s].twilioOut \subseteq {s}

\* every call re-keyed to its streamSid, with audio relayed both ways
C1_Witness ==
    \A c \in Calls :
        /\ session[c].streamSid = StreamSidOf(c)
        /\ sessions[StreamSidOf(c)] = c
        /\ obs[c].mediaFrom = {c}
        /\ obs[c].modelIn = {c}
        /\ obs[c].twilioOut = {c}

\* C2: a hang-up requested by hang_up_call on one session is applied to that
\* session only: the result callback of any other tool never hangs a session
\* up, whatever the interleaving of handler completions and result callbacks.
C2_HangUpOnlyOwnSession ==
    \A s \in Calls : obs[s].hungUpBy \subseteq {"hang_up_call"}

\* C3: accepting a new telephony connection leaves every call that is already
\* active as it was: its telephony socket stays open, its model leg is not
\* touched and its registry entries remain.
C3_AcceptKeepsActiveCalls ==
    [][\A c, d \in Calls :
          (c # d /\ tw[d] = "idle" /\ tw'[d] = "open" /\ tw[c] = "open")
          => /\ tw'[c] = "open"
             /\ msock'[c] = msock[c]
             /\ \A k \in Keys : sessions[k] = c => sessions'[k] = c]_vars

\* C4: with consent handling enabled, no recording of a call is started and
\* no caller audio is written to a recording before continue_with_consent has
\* been invoked for that call.
C4_NoRecordingBeforeConsent ==
    \A c \in Calls :
        (~disableConsent /\ (obs[c].recStarted \/ obs[c].inboundRecorded))
        => obs[c].affirmed

\* C5: with consent handling enabled, the session-setup sent when a model leg
\* opens exposes only the three consent capabilities and carries the consent
\* instruction text.
C5_SetupIsConsentOnly ==
    \A s \in Calls :
        (~disableConsent /\ obs[s].setup # NoSetup)
        => /\ obs[s].setup.tools = getOnlyConsentFunctions
           /\ obs[s].setup.instructions = SYSTEM_PROMPT_WITH_CONSENT

\* C6: the phase is monotonic: once consent has been handled, no step of any
\* kind (tool invocation, telephony frame, model event, leg close, flag reset
\* after a hang-up) returns the phase to ConsentPending.
C6_PhaseMonotonic ==
    [][sessionControl.consentHandled => sessionControl'.consentHandled]_vars

\* consent handled, then a hang-up processed (flags reset) and both legs gone
C6_Witness ==
    /\ sessionControl.consentHandled
    /\ ~sessionControl.shouldHangUp
    /\ \E s \in Calls :
          /\ obs[s].hungUpBy # {}
          /\ tw[s] = "closed"
          /\ msock[s] = "closed"

\* C7: once continue_with_consent has been invoked and its result returned,
\* the session-setup last sent to the model leg is bound to the service
\* capabilities and the base instructions.
C7_AffirmBindsServiceSubset ==
    \A s \in Calls :
        obs[s].affirmDone
        => obs[s].setup = [tools |-> getNonConsentFunctions,
                           instructions |-> SYSTEM_PROMPT_BASE]

C9_ModelClosedBeforeDenialAudio ==
    \A s \in Calls :
        obs[s].denialSent # {} => msock[s] \in {"closing", "closed"}

\* a denial frame has been sent on a session hung up by hang_up_call
C9_Witness ==
    \E s \in Calls :
        /\ obs[s].denialSent # {}
        /\ obs[s].hungUpBy = {"hang_up_call"}
        /\ ~session[s].modelConn

\* C10: from the moment the denial hang-up begins on a session, no
\* response.audio.delta received on its model leg is forwarded to its
\* telephony leg.
C10_NoModelAudioAfterDenial ==
    \A s \in Calls : ~obs[s].lateAudio

\* the step that handles one speech-started signal, or one error, on Session s
BargeInStep(s) ==
    /\ obs'[s].last.seq # obs[s].last.seq
    /\ obs'[s].last.event = "speech_started"
ErrorStep(s) ==
    /\ obs'[s].last.seq # obs[s].last.seq
    /\ obs'[s].last.event = "error"
\* start timestamp, last item id and counters are all cleared
TrackingIsReset(sr) ==
    /\ sr.lastAssistantItem = NoItem
    /\ sr.responseStartTimestamp = NoTime
    /\ sr.audioChunkCount = 0
    /\ sr.audioDurationMs = 0
Truncates(sends) == {i \in DOMAIN sends : sends[i].type = "conversation.item.truncate"}
Clears(sends) == {i \in DOMAIN sends : sends[i].type = "clear"}

\* C12: every conversation.item.truncate sent to the model leg carries an
\* audio_end_ms no greater than the audio forwarded for the utterance, which
\* is at most 20 ms for each audio delta counted since the utterance began.
C12_TruncateWithinForwardedAudio ==
    [][\A s \in Calls :
          BargeInStep(s)
          => \A i \in Truncates(obs'[s].last.sends) :
                 obs'[s].last.sends[i].audio_end_ms
                     <= session[s].audioChunkCount * 20]_vars

\* C13: a speech-started signal with an utterance in flight whose elapsed
\* time is below 100 ms sends nothing to either leg (no truncate, no clear)
\* and resets utterance tracking.
C13_ShortElapsedSkips ==
    [][\A s \in Calls :
          (/\ BargeInStep(s)
           /\ session[s].lastAssistantItem # NoItem
           /\ session[s].responseStartTimestamp # NoTime
           /\ session[s].latestMediaTimestamp
                  - session[s].responseStartTimestamp < 100)
          => /\ obs'[s].last.sends = << >>
             /\ TrackingIsReset(session'[s])]_vars

\* an utterance was in flight, both legs open, elapsed below 100 ms: nothing sent
C13_Witness ==
    \E s \in Calls :
        /\ obs[s].last.event = "speech_started"
        /\ obs[s].last.inFlight
        /\ obs[s].last.elapsed < 100
        /\ obs[s].last.sends = << >>
        /\ isOpenModel(s) /\ isOpenTw(s)
        /\ session[s].latestMediaTimestamp > 0
        /\ TrackingIsReset(session[s])

C15_TruncateThenClear ==
    [][\A s \in Calls :
          BargeInStep(s)
          => /\ Cardinality(Truncates(obs'[s].last.sends)) <= 1
             /\ Cardinality(Clears(obs'[s].last.sends)) <= 1
             /\ (/\ session[s].lastAssistantItem # NoItem
                 /\ session[s].responseStartTimestamp # NoTime
                 /\ session[s].latestMediaTimestamp
                        - session[s].responseStartTimestamp >= 100
                 /\ session[s].latestMediaTimestamp
                        - session[s].responseStartTimestamp
                        <= session[s].audioChunkCount * 20 + 100
                 /\ isOpenModel(s) /\ CanClear(s))
                => /\ obs'[s].last.sends =
                        << [to |-> "model",
                            type |-> "conversation.item.truncate",
                            item_id |-> session[s].lastAssistantItem,
                            content_index |-> 0,
                            audio_end_ms |-> session[s].latestMediaTimestamp
                                - session[s].responseStartTimestamp],
                           ClearMsg >>
                   /\ TrackingIsReset(session'[s])]_vars

\* a barge-in that passed both guards sent truncate then clear
C15_Witness ==
    \E s \in Calls :
        /\ obs[s].last.event = "speech_started"
        /\ obs[s].last.inFlight
        /\ obs[s].last.elapsed >= 100
        /\ obs[s].last.elapsed <= obs[s].last.estimate + 100
        /\ Len(obs[s].last.sends) = 2
        /\ obs[s].last.sends[1].type = "conversation.item.truncate"
        /\ obs[s].last.sends[1].audio_end_ms = obs[s].last.elapsed
        /\ obs[s].last.sends[2] = ClearMsg
        /\ TrackingIsReset(session[s])

\* C16: a "too short" truncation error from the model leg (invalid_value,
\* "Audio content ... shorter than") is handled locally: utterance tracking is
\* reset, a clear is sent to the telephony leg when it is open, both sockets
\* keep their state and the Session keeps its legs, its streamSid and its
\* registry entry.
C16_TooShortErrorRecovers ==
    [][\A s \in Calls :
          (/\ ErrorStep(s)
           /\ obs'[s].last.error.type = "invalid_value"
           /\ obs'[s].last.error.audioContent
           /\ obs'[s].last.error.shorterThan)
          => /\ TrackingIsReset(session'[s])
             /\ CanClear(s) => obs'[s].last.sends = <<ClearMsg>>
             /\ tw' = tw /\ msock' = msock /\ sessions' = sessions
             /\ session'[s].twilioConn = session[s].twilioConn
             /\ session'[s].modelConn = session[s].modelConn
             /\ session'[s].streamSid = session[s].streamSid]_vars

\* the error was recovered (clear sent) and a later audio delta is tracked
\* again on the still-open, still-registered session
C16_Witness ==
    \E s \in Calls :
        /\ obs[s].last.event = "error"
        /\ obs[s].last.error.shorterThan
        /\ obs[s].last.inFlight
        /\ obs[s].last.sends = <<ClearMsg>>
        /\ isOpenModel(s) /\ isOpenTw(s)
        /\ sessions[StreamSidOf(s)] = s
        /\ session[s].lastAssistantItem # NoItem
        /\ session[s].latestMediaTimestamp > 0

\* C11: on a consent denial with n denial-audio frames, the playback closes
\* the telephony leg only after all n frames have been sent, 20 ms apart, and
\* not before n * 20 ms + 1000 ms from the start of the playback.
C11_HangUpAfterDenialAudio ==
    \A s \in Calls :
        obs[s].denialHungUpAt # NoTime
        => /\ obs[s].denialSent = 0..(NumChunks - 1)
           /\ obs[s].denialHungUpAt >= NumChunks * 20 + 1000

\* the playback ran to its end and hung up the telephony leg
C11_Witness ==
    \E s \in Calls :
        /\ obs[s].denialHungUpAt # NoTime
        /\ obs[s].denialSent # {}
        /\ denialPlay[s] = {}
        /\ tw[s] \in {"closing", "closed"}

\* the step in which the promise of handleFunctionCall settles on Session s,
\* and the step that runs its result callback
SettleStep(s) == task[s].stage = "running" /\ task'[s].stage # "running"
CallbackStep(s) == task[s].stage \in {"resolved", "rejected"} /\ task'[s] = NoTask

C18_MalformedArgsNotFatal ==
    [][\A s \in Calls :
          /\ (SettleStep(s) /\ task[s].name \in Functions /\ ~task[s].argsOk)
             => /\ obs'[s].ranIds = obs[s].ranIds
                /\ sessionControl' = sessionControl
                /\ task'[s].stage = "resolved"
                /\ UNCHANGED <<session, sessions, tw, msock>>
          /\ (CallbackStep(s) /\ task[s].name \in Functions /\ ~task[s].argsOk)
             => /\ isOpenModel(s)
                   => obs'[s].toolOut = ToolOutputMsgs(task[s].call_id,
                          "Invalid JSON arguments for function call.")
                /\ UNCHANGED <<session, sessions, tw, msock, sessionControl,
                               denialLoading>>]_vars

\* malformed arguments answered with the structured error while another
\* invocation's hang-up flag is pending: the legs are still open
C18_Witness ==
    \E s \in Calls :
        /\ Len(obs[s].toolOut) = 2
        /\ obs[s].toolOut[1].output = "Invalid JSON arguments for function call."
        /\ obs[s].ranIds = {}
        /\ sessionControl.shouldHangUp
        /\ isOpenModel(s) /\ isOpenTw(s)

\* C19: the handler is run at most once per tool-invocation id, however often
\* the model leg delivers the done event of that call id.
C19_OneRunPerCallId ==
    \A s \in Calls : obs[s].reran = {}

\* C20: once the telephony socket of a call has closed, the model socket
\* created for that call eventually reaches the closed state, also when it
\* was still connecting at the time the telephony socket closed.
C20_ModelLegEventuallyClosed ==
    \A s \in Calls :
        [](tw[s] = "closed" => <>(msock[s] \in {"none", "closed"}))

\* C21: no delayed effect writes to a closed transport: the greeting timer and
\* the denial chunk timers of a call, firing after a leg has closed, write
\* nothing, and no send of the relay runs on a socket that is not open.
C21_NoWriteToClosedLeg ==
    \A s \in Calls : ~obs[s].badWrite

\* both kinds of timer have fired on a leg that was no longer open
C21_Witness ==
    \E s \in Calls : obs[s].skipped = {"greeting", "denial"}

\* a malformed frame of call c has been handled in this step
MalformedFrameStep(c) == obs'[c].frames # obs[c].frames

\* C22: a malformed frame on either leg is dropped: the registry, the
\* sessions and both sockets are as before, and no error escapes the handler.
C22_MalformedFrameDropped ==
    [][\A c \in Calls :
          MalformedFrameStep(c) =>
              /\ sessions' = sessions
              /\ session' = session
              /\ tw' = tw
              /\ msock' = msock
              /\ ~obs'[c].escaped]_vars

C24_MediaForwardedIffModelOpen ==
    [][\A c \in Calls, ts \in Timestamps :
          LET s == Lookup(sessions, SessionIdOf(c))
          IN (TwilioMedia(c, ts) /\ s # NoSession) =>
                /\ obs'[s].media \in {"forwarded", "dropped"}
                /\ obs'[s].media = "forwarded"
                      <=> (session[s].modelConn /\ msock[s] = "open")
                /\ tw' = tw
                /\ msock' = msock
                /\ session'[s].latestMediaTimestamp = ts]_vars

\* a frame that arrived while the model leg was still connecting was dropped
\* and moved the media clock
C24_Witness ==
    \E s \in Calls :
        /\ obs[s].media = "dropped"
        /\ msock[s] = "connecting"
        /\ tw[s] = "open"
        /\ session[s].latestMediaTimestamp > 0

\* C25: the first audio frame of a new utterance (an item id other than the
\* last one) latches the utterance start to the latest media timestamp and
\* restarts the sent-audio counters, also when the previous utterance ended
\* without a barge-in.
C25_NewItemRelatches ==
    [][\A s \in Calls, item \in Items :
          (/\ ModelAudioDelta(s, item)
           /\ session[s].twilioConn
           /\ session[s].streamSid # NoKey
           /\ item # session[s].lastAssistantItem) =>
                /\ session'[s].responseStartTimestamp =
                       session[s].latestMediaTimestamp
                /\ session'[s].audioChunkCount = 1
                /\ session'[s].audioDurationMs = 20]_vars

\* C26: every model audio frame sent to the telephony leg is followed at once
\* by one mark for the same stream, and a mark is sent only right after a
\* media frame.
C26_MarkAfterEveryMediaFrame ==
    [][\A s \in Calls, item \in Items :
          ModelAudioDelta(s, item) =>
              LET out == obs'[s].deltaOut
              IN /\ \A i \in DOMAIN out :
                       out[i].event = "media" =>
                           /\ i + 1 \in DOMAIN out
                           /\ out[i + 1].event = "mark"
                           /\ out[i + 1].streamSid = out[i].streamSid
                 /\ \A i \in DOMAIN out :
                       out[i].event = "mark" =>
                           /\ i - 1 \in DOMAIN out
                           /\ out[i - 1].event = "media"
                 /\ out # << >> <=> (/\ session[s].twilioConn
                                     /\ session[s].streamSid # NoKey
                                     /\ tw[s] = "open")]_vars

\* an audio delta has been forwarded to an open telephony leg
C26_Witness ==
    \E s \in Calls :
        /\ Len(obs[s].deltaOut) = 2
        /\ obs[s].deltaOut[1].streamSid = StreamSidOf(s)

\* C27: a 'start' frame whose session key is missing from the registry
\* changes nothing there and the call goes on: while the telephony socket of
\* such a call is open, the key its media frames are looked up under still
\* leads to a session, so that they can be relayed to its model leg.
C27_CallContinuesAfterLostStart ==
    \A c \in Calls :
        (obs[c].startLost /\ tw[c] = "open") =>
            Lookup(sessions, SessionIdOf(c)) # NoSession

C29_ConsentSwitchSelectsStartup ==
    /\ disableConsent => ~audioCached
    /\ \A s \in Calls :
          /\ obs[s].setup # NoSetup =>
                /\ obs[s].setup.instructions = getSystemPrompt(disableConsent)
                /\ disableConsent =>
                      /\ obs[s].setup.tools = getNonConsentFunctions
                      /\ sessionControl.consentHandled
          /\ obs[s].greeting # NoGreeting =>
                /\ obs[s].greeting = getInitialGreeting(disableConsent).message
                /\ disableConsent => obs[s].greeting # ""

\* C30: a speech-started signal that arrives when no utterance is in flight
\* (no last item id, or no utterance start timestamp) sends nothing to either
\* leg and leaves every session's state as it was.
C30_SpeechStartedWithoutUtteranceIsNoOp ==
    [][\A s \in Calls :
          (/\ ModelSpeechStarted(s)
           /\ \/ session[s].lastAssistantItem = NoItem
              \/ session[s].responseStartTimestamp = NoTime) =>
              /\ obs'[s].last.sends = << >>
              /\ session' = session
              /\ sessions' = sessions]_vars
C30_Witness ==
    \E s \in Calls :
        /\ obs[s].last.event = "speech_started"
        /\ ~obs[s].last.inFlight
        /\ obs[s].last.sends = << >>
        /\ session[s].latestMediaTimestamp >= MIN_TRUNCATION_MS
        /\ isOpenModel(s)
        /\ isOpenTw(s)

C32_OneLiveModelSocket ==
    [][/\ \A s \in Calls :
            ~(/\ stale'[s] \in {"connecting", "open"}
              /\ msock'[s] \in {"connecting", "open"})
       /\ \A s \in Calls :
            StaleModelSockClose(s) =>
                /\ msock'[s] = msock[s]
                /\ session'[s].modelConn = session[s].modelConn]_vars

\* C33: each call's session object is registered under at most one key at
\* every moment; once its 'start' event has been handled the temporary key
\* is absent and the streamSid key maps to that same object; and once its
\* telephony socket's close handler has run no registry key maps to it.
C33_OneRegistryKeyPerCall ==
    \A c \in Calls :
        /\ Cardinality({k \in Keys : sessions[k] = c}) <= 1
        /\ (started[c] /\ tw[c] # "closed") =>
               /\ sessions[TempId(c)] # c
               /\ sessions[StreamSidOf(c)] = c
        /\ tw[c] = "closed" => \A k \in Keys : sessions[k] # c

\* C34: in every reachable state the utterance-tracking fields of a session
\* agree: a last item id is set only if the utterance start timestamp is, the
\* chunk counter is set (counts a chunk) exactly when the start timestamp is
\* set, and the sent-audio estimate is 20 ms times the chunk counter.
C34_TrackingFieldsConsistent ==
    \A s \in Calls :
        /\ session[s].lastAssistantItem # NoItem =>
               session[s].responseStartTimestamp # NoTime
        /\ session[s].audioChunkCount > 0 <=>
               session[s].responseStartTimestamp # NoTime
        /\ session[s].audioDurationMs = 20 * session[s].audioChunkCount
C34_Witness ==
    \E s \in Calls :
        /\ obs[s].last.event \in {"speech_started", "error"}
        /\ obs[s].last.inFlight
        /\ session[s].lastAssistantItem # NoItem
        /\ session[s].audioChunkCount >= 2
        /\ session[s].audioDurationMs = 20 * session[s].audioChunkCount

\* C35: the first message sent on every model-leg connection is the session
\* setup.  Audio-append, observer-forwarded, greeting and tool-output messages
\* are written to a session's model socket only while it is open; whenever it
\* is open, the setup has already been sent on that socket.
C35_SetupIsFirstOnModelSocket ==
    \A s \in Calls : isOpenModel(s) => obs[s].configured
C35_Witness ==
    \E s \in Calls :
        /\ isOpenModel(s)
        /\ obs[s].configured
        /\ obs[s].media = "forwarded"
        /\ obs[s].greeting # NoGreeting
        /\ stale[s] = "open"

\* C36: a tool invocation that names a capability missing from the registry
\* runs no handler and has neither a tool output nor a turn continuation
\* sent to the model leg; both legs stay as they are and the session, the
\* registry and the control flags are unchanged.
C36_UnknownToolIsIgnored ==
    [][\A s \in Calls :
          ((HandlerCompletes(s) \/ FunctionCallback(s))
              /\ task[s].name \notin Functions) =>
              /\ obs'[s].ranIds = obs[s].ranIds
              /\ FunctionCallback(s) => obs'[s].toolOut = << >>
              /\ session' = session
              /\ sessions' = sessions
              /\ sessionControl' = sessionControl
              /\ msock' = msock
              /\ tw' = tw]_vars
C36_Witness ==
    \E s \in Calls :
        /\ invoked[s] = 1
        /\ task[s] = NoTask
        /\ obs[s].ranIds = {}
        /\ obs[s].toolOut = << >>
        /\ isOpenModel(s)
        /\ isOpenTw(s)

\* C37: when the result of a hang_up_call whose reason is not consent_denied
\* is returned on a session that still has its model leg, that session's
\* model leg and telephony leg are closed in that step, no denial audio is
\* started, consent is not marked as handled, and the hang-up flag is cleared
\* in the same step, so that the invocation is processed at most once.
C37_PlainHangUpClosesBothLegs ==
    [][\A s \in Calls :
          (/\ FunctionCallback(s)
           /\ task[s].name = "hang_up_call"
           /\ task[s].reason # "consent_denied"
           /\ task[s].stage = "resolved"
           /\ task[s].output = "result"
           /\ session[s].modelConn) =>
              /\ ~(session'[s].modelConn /\ msock'[s] = "open")
              /\ tw'[s] # "open"
              /\ ~denialLoading'[s]
              /\ sessionControl'.consentHandled = sessionControl.consentHandled
              /\ ~sessionControl'.shouldHangUp]_vars

C39_StoppedRecordingStaysAbsent ==
    \A c \in Calls :
        /\ obs[c].recStopped => ~HasRecording(localRec[c])
        /\ ~obs[c].dupStreams

====
